---- MODULE Spec2Model ----
(***************************************************************************)
(* Model of the request handlers of app.py (Search, API, Compute) of the   *)
(* pulsar survey scraper server.                                           *)
(*                                                                         *)
(* Numbers are held in tenths (25 stands for 2.5), so that text with one   *)
(* fractional digit is exact.  Text is a tuple of one-character strings.   *)
(* An optional value is a tuple: <<>> is Python's None / an absent key,    *)
(* <<x>> is the value x.                                                   *)
(***************************************************************************)
EXTENDS Integers, Sequences, FiniteSets, TLC

VARIABLES
  pulsar_table,  \* the catalog, built once at startup (line 30)
  req            \* per request in flight: handler, position, inputs, locals,
                 \* the external calls made, the response, and (for an API
                 \* request that follows a redirect) the form it came from

vars == <<pulsar_table, req>>

(* ------------------------------------------------------------------ *)
(* Bounds of the model                                                  *)
(* ------------------------------------------------------------------ *)

\* number of requests that can be in flight at once
NumReq == 2

Req == 1..NumReq

(* ------------------------------------------------------------------ *)
(* Optional values                                                      *)
(* ------------------------------------------------------------------ *)

None == <<>>

Some(x) == <<x>>

IsNone(o) == o = <<>>

Val(o) == o[1]

(* ------------------------------------------------------------------ *)
(* Numbers and text                                                     *)
(* ------------------------------------------------------------------ *)

\* n whole units, in tenths
Tenths(n) == n * 10

DigitChars == <<"0", "1", "2", "3", "4", "5", "6", "7", "8", "9">>

IsDigit(c) == \E i \in 1..10 : DigitChars[i] = c

DigitVal(c) == (CHOOSE i \in 1..10 : DigitChars[i] = c) - 1

AllDigits(s) == \A i \in 1..Len(s) : IsDigit(s[i])

RECURSIVE DigitsVal(_)
DigitsVal(s) ==
  IF s = <<>> THEN 0
  ELSE DigitsVal(SubSeq(s, 1, Len(s) - 1)) * 10 + DigitVal(s[Len(s)])

RECURSIVE DigitsOf(_)
DigitsOf(k) ==
  IF k < 10 THEN <<DigitChars[k + 1]>>
  ELSE Append(DigitsOf(k \div 10), DigitChars[(k % 10) + 1])

Abs(n) == IF n < 0 THEN -n ELSE n

\* Python's float(text) on decimal text [-]digits[.digits]: the number, or a
\* ValueError (ok = FALSE).  Exponents, "inf", "nan" and surrounding blanks
\* are outside the texts of the model; a second fractional digit and the
\* ones after it are below the resolution of a tenth and are dropped.
ParseFloat(s) ==
  LET neg  == Len(s) > 0 /\ s[1] = "-"
      body == IF neg THEN Tail(s) ELSE s
      dots == {i \in 1..Len(body) : body[i] = "."}
      k    == IF dots = {} THEN Len(body) + 1 ELSE CHOOSE i \in dots : TRUE
      ip   == SubSeq(body, 1, k - 1)
      fp   == SubSeq(body, k + 1, Len(body))
      wellformed ==
        /\ Cardinality(dots) <= 1
        /\ AllDigits(ip) /\ AllDigits(fp)
        /\ Len(ip) + Len(fp) > 0
      mag  == DigitsVal(ip) * 10 + (IF fp = <<>> THEN 0 ELSE DigitVal(fp[1]))
  IN IF wellformed
       THEN [ok |-> TRUE, val |-> IF neg THEN -mag ELSE mag]
       ELSE [ok |-> FALSE, val |-> 0]

\* Python's str(x) of a float x: sign, integer digits, ".", fraction ("5.0").
FormatFloat(n) ==
  (IF n < 0 THEN <<"-">> ELSE <<>>)
    \o DigitsOf(Abs(n) \div 10) \o <<".">> \o <<DigitChars[(Abs(n) % 10) + 1]>>

\* str(x) of a form field's number, which keeps no fraction it does not
\* need ("50", "2.5").
FormatFormNumber(n) ==
  (IF n < 0 THEN <<"-">> ELSE <<>>)
    \o DigitsOf(Abs(n) \div 10)
    \o (IF Abs(n) % 10 = 0 THEN <<>> ELSE <<".", DigitChars[(Abs(n) % 10) + 1]>>)

\* A number as Python holds it: a float, or the form field's own number.
Float(n) == [ty |-> "float", v |-> n]

FormNumber(n) == [ty |-> "form", v |-> n]

\* float(x)
ToFloat(x) == Float(x.v)

\* str(x)
Str(x) == IF x.ty = "float" THEN FormatFloat(x.v) ELSE FormatFormNumber(x.v)

\* An int literal of the source (dmtol = 10).
PyInt(n) == [ty |-> "int", v |-> n]

\* An astropy Quantity: a value and the power of the unit deg it carries.
Quantity(n, k) == [ty |-> "quantity", v |-> n, deg |-> k]

\* x * u.deg: a plain number becomes a Quantity in deg; a Quantity has its
\* unit multiplied by deg (deg becomes deg**2).
MulDeg(x) ==
  IF x.ty = "quantity" THEN Quantity(x.v, x.deg + 1) ELSE Quantity(x.v, 1)

\* x * u.pc
MulPc(x) == [ty |-> "quantity_pc", v |-> x.v]

(* ------------------------------------------------------------------ *)
(* Coordinates (astropy.coordinates, an external library)               *)
(* ------------------------------------------------------------------ *)

\* SkyCoord(ra * u.deg, dec * u.deg): a ValueError (ok = FALSE) when the
\* latitude is outside [-90 deg, 90 deg]; the longitude wraps into [0, 360).
SkyCoord(ra, dec) ==
  IF dec.v < -Tenths(90) \/ dec.v > Tenths(90)
    THEN [ok |-> FALSE, coord |-> None]
    ELSE [ok |-> TRUE,
          coord |-> Some([frame |-> "icrs", lon |-> ra.v % Tenths(360), lat |-> dec.v])]

(* ------------------------------------------------------------------ *)
(* Responses                                                            *)
(* ------------------------------------------------------------------ *)

\* return "<message>": a plain string body
TextResp(what, echo) == [kind |-> "text", what |-> what, data |-> echo]

\* an exception no handler catches: the framework answers with a server fault
FaultResp(exc, detail) == [kind |-> "fault", what |-> exc, data |-> detail]

\* return redirect(url_for(endpoint, **params))
RedirectResp(endpoint, params) == [kind |-> "redirect", what |-> endpoint, data |-> params]

\* return render_template(template, ...)
HtmlResp(template, data) == [kind |-> "html", what |-> template, data |-> data]

\* return result (the JSON document of the search)
JsonResp(result) == [kind |-> "json", what |-> "result", data |-> result]

NoResp == [kind |-> "none", what |-> "", data |-> None]

(* ------------------------------------------------------------------ *)
(* API(), lines 159-182: the parameters of the request                  *)
(* ------------------------------------------------------------------ *)

ArgKeys == {"ra", "dec", "radius", "dm", "dmtol"}

NoArgs == [k \in ArgKeys |-> None]

\* "k" in request.args
Has(args, k) == ~IsNone(args[k])

\* The handler up to the search: either it has returned (done, with resp),
\* or it goes on to the search with the locals loc.
APIParams(args) ==
  LET radius0 == MulDeg(PyInt(Tenths(5)))
      dm0     == None
      dmtol0  == PyInt(Tenths(10))
      Return(r) == [done |-> TRUE, resp |-> r, loc |-> None]
      Raise(k)  == Return(FaultResp("ValueError", args[k]))
      P(k)      == ParseFloat(Val(args[k]))
  IN
  IF ~Has(args, "ra") THEN Return(TextResp("Error: no RA specified", None))
  ELSE IF ~P("ra").ok THEN Raise("ra")
  ELSE IF ~Has(args, "dec") THEN Return(TextResp("Error: no Dec specified", None))
  ELSE IF ~P("dec").ok THEN Raise("dec")
  ELSE IF Has(args, "radius") /\ ~P("radius").ok THEN Raise("radius")
  ELSE IF Has(args, "dm") /\ ~P("dm").ok THEN Raise("dm")
  ELSE IF Has(args, "dmtol") /\ ~P("dmtol").ok THEN Raise("dmtol")
  ELSE
    LET ra     == Float(P("ra").val)
        dec    == Float(P("dec").val)
        radius == IF Has(args, "radius") THEN Float(P("radius").val) ELSE radius0
        dm     == IF Has(args, "dm") THEN Some(Float(P("dm").val)) ELSE dm0
        dmtol  == IF Has(args, "dmtol") THEN Float(P("dmtol").val) ELSE dmtol0
        sc     == SkyCoord(ra, dec)
    IN IF ~sc.ok
         THEN Return(TextResp("Unable to parse RA,Dec", Some(<<Str(ra), Str(dec)>>)))
         ELSE [done |-> FALSE, resp |-> NoResp,
               loc |-> Some([coord |-> Val(sc.coord), radius |-> radius,
                             DM |-> dm, DMtol |-> Some(dmtol)])]

\* pulsar_table.search(coord, radius=radius * u.deg, DM=dm,
\*                     DM_tolerance=dmtol, return_json=True), lines 184-186
APISearchCall(loc) ==
  [fn |-> "search", coord |-> loc.coord, radius |-> MulDeg(loc.radius),
   DM |-> loc.DM, DM_tolerance |-> loc.DMtol, return_json |-> TRUE]

(* ------------------------------------------------------------------ *)
(* The forms (forms.py: SearchForm, DMForm and the coordinate parsers)  *)
(* ------------------------------------------------------------------ *)

\* parse_equcoord_and_validate / parse_galcoord_and_validate: the text of the
\* coordinates field, here a pair of decimal-degree texts, as a coordinate
\* of the given frame; ok = FALSE stands for the ValidationError.
ParseCoord(text, frame) ==
  LET a == ParseFloat(text[1])
      b == ParseFloat(text[2])
      sc == SkyCoord(Float(a.val), Float(b.val))
  IN IF a.ok /\ b.ok /\ sc.ok
       THEN [ok |-> TRUE, coord |-> Some([Val(sc.coord) EXCEPT !.frame = frame])]
       ELSE [ok |-> FALSE, coord |-> None]

\* SearchForm.validate_on_submit(): the form was posted, the coordinates
\* parse and the radius is filled in; dm and dmtol are optional.
SearchFormValid(form) ==
  /\ form.submitted
  /\ ParseCoord(form.coordinates, "icrs").ok
  /\ ~IsNone(form.radius)

FrameOf(selector) == IF selector = "galactic" THEN "galactic" ELSE "icrs"

\* DMForm.validate_on_submit()
DMFormValid(form) ==
  /\ form.submitted
  /\ ParseCoord(form.coordinates, FrameOf(form.lb_or_radec_selector)).ok
  /\ ~IsNone(form.d_or_dm)

\* DMForm.model_selector.choices: (model, model_label) pairs
ModelChoices == {<<"ne2001", "NE2001">>, <<"ymw16", "YMW16">>}

ModelLabel(model) == (CHOOSE c \in ModelChoices : c[1] = model)[2]

\* url_for(endpoint, **values): each value as text, a None value left out
UrlValue(o) == IF IsNone(o) THEN None ELSE Some(Str(Val(o)))

(* ------------------------------------------------------------------ *)
(* Search(), lines 49-89 and 136-140                                    *)
(* ------------------------------------------------------------------ *)

\* lines 54-57
FormDM(form) == IF ~IsNone(form.dm) THEN Some(ToFloat(Val(form.dm))) ELSE form.dm

\* lines 58-61
FormDMtol(form) ==
  IF ~IsNone(form.dmtol) THEN Some(ToFloat(Val(form.dmtol))) ELSE form.dm

\* lines 52-61: the locals of a valid submission
FormLocals(form) ==
  [coord |-> Val(ParseCoord(form.coordinates, "icrs").coord),
   radius |-> ToFloat(Val(form.radius)),
   DM |-> FormDM(form), DMtol |-> FormDMtol(form)]

\* a redirect that passes no radius on
APIRedirect_NoRadius(form) ==
  LET loc   == FormLocals(form)
      radec == [NoArgs EXCEPT !["ra"] = UrlValue(Some(Float(loc.coord.lon))),
                              !["dec"] = UrlValue(Some(Float(loc.coord.lat)))]
  IN IF IsNone(loc.DM)
       THEN RedirectResp("API", radec)
       ELSE RedirectResp("API", [radec EXCEPT !["dm"] = UrlValue(loc.DM),
                                              !["dmtol"] = UrlValue(loc.DMtol)])

\* lines 66-86: redirect(url_for("API", ra=..., dec=..., radius=...[, dm=..., dmtol=...]))
APIRedirect(form) ==
  LET loc   == FormLocals(form)
      radec == [NoArgs EXCEPT !["ra"] = UrlValue(Some(Float(loc.coord.lon))),
                              !["dec"] = UrlValue(Some(Float(loc.coord.lat))),
                              !["radius"] = UrlValue(Some(loc.radius))]
  IN IF IsNone(loc.DM)
       THEN RedirectResp("API", radec)
       ELSE RedirectResp("API", [radec EXCEPT !["dm"] = UrlValue(loc.DM),
                                              !["dmtol"] = UrlValue(loc.DMtol)])

\* The handler up to the search: either it has returned, or it goes on to
\* the search and the HTML table with the locals loc.
SearchSubmit(form) ==
  LET Return(r) == [done |-> TRUE, resp |-> r, loc |-> None]
  IN
  IF SearchFormValid(form)
    THEN IF form.api THEN Return(APIRedirect(form))
         ELSE IF form.clear THEN Return(RedirectResp("Search", NoArgs))
         ELSE [done |-> FALSE, resp |-> NoResp, loc |-> Some(FormLocals(form))]
    ELSE IF form.clear
      THEN Return(RedirectResp("Search", NoArgs))
      ELSE Return(HtmlResp("search.html", None))

\* pulsar_table.search(coord, radius=float(form.radius.data) * u.deg, DM=DM,
\*                     DM_tolerance=DMtol), lines 95-97
FormSearchCall(loc) ==
  [fn |-> "search", coord |-> loc.coord, radius |-> MulDeg(loc.radius),
   DM |-> loc.DM, DM_tolerance |-> loc.DMtol, return_json |-> FALSE]

(* ------------------------------------------------------------------ *)
(* The catalog search (pulsarsurveyscraper, an external library)        *)
(* ------------------------------------------------------------------ *)

\* The catalog as loaded at startup (line 30): rows of name, position, DM.
LoadedTable ==
  {[PSR |-> "J0040+20", lon |-> Tenths(10), lat |-> Tenths(20), DM |-> Tenths(50)],
   [PSR |-> "J0534+22", lon |-> Tenths(83), lat |-> Tenths(22), DM |-> Tenths(56)]}

\* The result of a search: the rows of the table the query selects.  The
\* selection is the library's; the result is held as the query and the table
\* contents it was put to.
SearchResult(table, call) == [query |-> call, rows |-> table]

\* What a call of pulsar_table.search can do: it returns its result, and,
\* when the radius is no angle (its unit is not deg), it may instead raise
\* on comparing a separation with it; which of the two is the library's.
SearchOutcomes(call) ==
  IF call.radius.deg = 1 THEN {"returns"} ELSE {"returns", "raises"}

(* ------------------------------------------------------------------ *)
(* Compute(), lines 200-262, and pygedm (an external library)           *)
(* ------------------------------------------------------------------ *)

\* coord.galactic: a galactic coordinate is itself; an equatorial one is
\* rotated by the coordinate library.  The rotation is the library's; all
\* the handler does is pass its result on, so a fixed one-to-one map that
\* moves every point stands for it.
Galactic(coord) ==
  IF coord.frame = "galactic" THEN coord
  ELSE [frame |-> "galactic",
        lon |-> (coord.lon + Tenths(123)) % Tenths(360),
        lat |-> -coord.lat]

\* a call that hands the model the coordinate as parsed, not its galactic form
ComputeCall_AsParsed(form) ==
  LET coord == Val(ParseCoord(form.coordinates, FrameOf(form.lb_or_radec_selector)).coord)
  IN IF form.d_or_dm_selector = "dm"
       THEN [fn |-> "dm_to_dist", l |-> coord.lon, b |-> coord.lat,
             value |-> ToFloat(Val(form.d_or_dm)), method |-> form.model_selector]
       ELSE [fn |-> "dist_to_dm", l |-> coord.lon, b |-> coord.lat,
             value |-> MulPc(ToFloat(Val(form.d_or_dm))), method |-> form.model_selector]

\* lines 203-219: the one call of the electron-density model
ComputeCall(form) ==
  LET coord == Val(ParseCoord(form.coordinates, FrameOf(form.lb_or_radec_selector)).coord)
      g     == Galactic(coord)
  IN IF form.d_or_dm_selector = "dm"
       THEN [fn |-> "dm_to_dist", l |-> g.lon, b |-> g.lat,
             value |-> ToFloat(Val(form.d_or_dm)), method |-> form.model_selector]
       ELSE [fn |-> "dist_to_dm", l |-> g.lon, b |-> g.lat,
             value |-> MulPc(ToFloat(Val(form.d_or_dm))), method |-> form.model_selector]

\* What the model can answer: a pair (value, second value), or an exception.
GedmOutcomes ==
  {[raises |-> TRUE, value |-> 0, second |-> 0],
   [raises |-> FALSE, value |-> 1234, second |-> 3],
   [raises |-> FALSE, value |-> 88, second |-> 0]}

\* lines 246-256: what result_string shows
ResultString(form, out) ==
  IF form.d_or_dm_selector = "dm"
    THEN [DM |-> Val(form.d_or_dm).v, distance |-> out.value, model |-> None]
    ELSE [DM |-> out.value, distance |-> Val(form.d_or_dm).v,
          model |-> Some(ModelLabel(form.model_selector))]

\* lines 221-262: after the model has answered
ComputeRender(form, out) ==
  IF form.clear
    THEN RedirectResp("Compute", NoArgs)
    ELSE HtmlResp("compute.html", Some(ResultString(form, out)))

\* lines 264-268: the form was not posted or is not valid
ComputeInvalid(form) ==
  IF form.clear
    THEN RedirectResp("Compute", NoArgs)
    ELSE HtmlResp("compute.html", None)

(* ------------------------------------------------------------------ *)
(* State: the catalog and the requests in flight                        *)
(* ------------------------------------------------------------------ *)

Idle ==
  [handler |-> "idle", pc |-> "idle", args |-> NoArgs, form |-> None,
   loc |-> None, calls |-> <<>>, resp |-> NoResp, origin |-> None]

Init ==
  /\ pulsar_table = LoadedTable
  /\ req = [r \in Req |-> Idle]

\* a request's record changes, the catalog does not
Set(r, rec) ==
  /\ req' = [req EXCEPT ![r] = rec]
  /\ UNCHANGED pulsar_table

\* GET /api?...
APIRequest(r, args) ==
  /\ req[r].pc = "idle"
  /\ Set(r, [Idle EXCEPT !.handler = "API", !.pc = "params", !.args = args])

\* API(), lines 159-182
APIReadParams(r) ==
  /\ req[r].handler = "API" /\ req[r].pc = "params"
  /\ LET p == APIParams(req[r].args)
     IN Set(r, [req[r] EXCEPT !.pc = IF p.done THEN "done" ELSE "search",
                              !.resp = p.resp, !.loc = p.loc])

\* a search that keeps the query it served in the shared table
APISearch_CachesQuery(r) ==
  /\ req[r].handler = "API" /\ req[r].pc = "search"
  /\ LET call == APISearchCall(Val(req[r].loc))
     IN \E o \in SearchOutcomes(call) :
          /\ req' = [req EXCEPT ![r] =
                       [req[r] EXCEPT
                          !.pc = "done",
                          !.calls = Append(@, [call |-> call, table |-> pulsar_table, out |-> o]),
                          !.resp = IF o = "returns" THEN JsonResp(Some(SearchResult(pulsar_table, call)))
                                   ELSE FaultResp("UnitConversionError", None)]]
          /\ pulsar_table' = pulsar_table \cup
                {[PSR |-> "query", lon |-> call.coord.lon, lat |-> call.coord.lat, DM |-> 0]}

\* API(), lines 184-188
APISearch(r) ==
  /\ req[r].handler = "API" /\ req[r].pc = "search"
  /\ LET call == APISearchCall(Val(req[r].loc))
     IN \E o \in SearchOutcomes(call) :
          Set(r, [req[r] EXCEPT
                    !.pc = "done",
                    !.calls = Append(@, [call |-> call, table |-> pulsar_table, out |-> o]),
                    !.resp = IF o = "returns" THEN JsonResp(Some(SearchResult(pulsar_table, call)))
                             ELSE FaultResp("UnitConversionError", None)])

\* GET or POST /search
SearchRequest(r, form) ==
  /\ req[r].pc = "idle"
  /\ Set(r, [Idle EXCEPT !.handler = "Search", !.pc = "submit", !.form = Some(form)])

\* Search(), lines 40-89 and 136-140
SearchValidate(r) ==
  /\ req[r].handler = "Search" /\ req[r].pc = "submit"
  /\ LET p == SearchSubmit(Val(req[r].form))
     IN Set(r, [req[r] EXCEPT !.pc = IF p.done THEN "done" ELSE "table",
                              !.resp = p.resp, !.loc = p.loc])

\* Search(), lines 95-134
SearchTable(r) ==
  /\ req[r].handler = "Search" /\ req[r].pc = "table"
  /\ LET call == FormSearchCall(Val(req[r].loc))
     IN \E o \in SearchOutcomes(call) :
          Set(r, [req[r] EXCEPT
                    !.pc = "done",
                    !.calls = Append(@, [call |-> call, table |-> pulsar_table, out |-> o]),
                    !.resp = IF o = "returns" THEN HtmlResp("search.html", Some(SearchResult(pulsar_table, call)))
                             ELSE FaultResp("UnitConversionError", None)])

\* The client follows a redirect to the API endpoint: GET /api with the
\* parameters of the redirect.  origin remembers the form it came from.
FollowRedirect(r) ==
  /\ req[r].handler = "Search" /\ req[r].pc = "done"
  /\ req[r].resp.kind = "redirect" /\ req[r].resp.what = "API"
  /\ Set(r, [Idle EXCEPT !.handler = "API", !.pc = "params",
                         !.args = req[r].resp.data, !.origin = req[r].form])

\* GET or POST /compute
ComputeRequest(r, form) ==
  /\ req[r].pc = "idle"
  /\ Set(r, [Idle EXCEPT !.handler = "Compute", !.pc = "model", !.form = Some(form)])

\* Compute(), lines 197-219 (valid form) and 264-268 (otherwise)
ComputeModel(r) ==
  /\ req[r].handler = "Compute" /\ req[r].pc = "model"
  /\ LET form == Val(req[r].form)
     IN IF DMFormValid(form)
          THEN \E out \in GedmOutcomes :
                 Set(r, [req[r] EXCEPT
                           !.calls = Append(@, [call |-> ComputeCall(form), out |-> out]),
                           !.pc = IF out.raises THEN "done" ELSE "render",
                           !.resp = IF out.raises THEN FaultResp("ModelError", None)
                                    ELSE NoResp])
          ELSE Set(r, [req[r] EXCEPT !.pc = "done", !.resp = ComputeInvalid(form)])

\* Compute(), lines 221-262
ComputeFinish(r) ==
  /\ req[r].handler = "Compute" /\ req[r].pc = "render"
  /\ LET form == Val(req[r].form)
         out  == req[r].calls[Len(req[r].calls)].out
     IN Set(r, [req[r] EXCEPT !.pc = "done", !.resp = ComputeRender(form, out)])

\* the response has been delivered
Finish(r) ==
  /\ req[r].pc = "done"
  /\ Set(r, Idle)

(* ------------------------------------------------------------------ *)
(* The requests a client can send                                       *)
(* ------------------------------------------------------------------ *)

ArgsOf(Ra, Dec, Radius, Dm, Dmtol) ==
  {[ra |-> a, dec |-> b, radius |-> c, dm |-> d, dmtol |-> e] :
     a \in Ra, b \in Dec, c \in Radius, d \in Dm, e \in Dmtol}

SearchFormsOf(Submitted, Coordinates, Radius, Dm, Dmtol, Api, Clear) ==
  {[submitted |-> s, coordinates |-> c, radius |-> ra, dm |-> d, dmtol |-> t,
    api |-> a, clear |-> cl] :
     s \in Submitted, c \in Coordinates, ra \in Radius, d \in Dm, t \in Dmtol,
     a \in Api, cl \in Clear}

DMFormsOf(Submitted, Frame, Coordinates, Direction, Value, Model, Clear) ==
  {[submitted |-> s, lb_or_radec_selector |-> f, coordinates |-> c,
    d_or_dm_selector |-> d, d_or_dm |-> v, model_selector |-> m, clear |-> cl] :
     s \in Submitted, f \in Frame, c \in Coordinates, d \in Direction, v \in Value,
     m \in Model, cl \in Clear}

\* query strings: each parameter absent, a number, or text that is no number
AllArgs ==
  ArgsOf({None, Some(<<"1", "0">>), Some(<<"a", "b", "c">>)},
         {None, Some(<<"2", "0">>), Some(<<"9", "5">>), Some(<<"x">>)},
         {None, Some(<<"2", ".", "5">>), Some(<<"0">>), Some(<<"-", "1">>), Some(<<"r">>)},
         {None, Some(<<"5", "0">>), Some(<<"d">>)},
         {None, Some(<<"5">>), Some(<<"-", "5">>), Some(<<"t">>)})

AllSearchForms ==
  SearchFormsOf(BOOLEAN,
                {<<<<"1", "0">>, <<"2", "0">>>>, <<<<"3", "7", "0", ".", "5">>, <<"-", "2", "0">>>>,
                 <<<<"1", "0">>, <<"n", "o">>>>},
                {None, Some(FormNumber(25))},
                {None, Some(FormNumber(500)), Some(FormNumber(0))},
                {None, Some(FormNumber(50))},
                BOOLEAN, BOOLEAN)

AllDMForms ==
  DMFormsOf(BOOLEAN, {"equatorial", "galactic"},
            {<<<<"1", "0">>, <<"2", "0">>>>, <<<<"1", "0">>, <<"n", "o">>>>},
            {"dm", "distance"},
            {None, Some(FormNumber(500))},
            {"ne2001", "ymw16"},
            BOOLEAN)

\* the requests of the concurrent specification: the same query, with and
\* without its optional parts
FewArgs ==
  ArgsOf({Some(<<"1", "0">>)}, {Some(<<"2", "0">>)}, {Some(<<"2", ".", "5">>)},
         {None, Some(<<"5", "0">>)}, {None, Some(<<"5">>)})

FewSearchForms ==
  SearchFormsOf({TRUE}, {<<<<"1", "0">>, <<"2", "0">>>>}, {Some(FormNumber(25))},
                {None, Some(FormNumber(500))}, {None, Some(FormNumber(50))},
                BOOLEAN, {FALSE})

FewDMForms ==
  DMFormsOf({TRUE}, {"equatorial"}, {<<<<"1", "0">>, <<"2", "0">>>>}, {"dm"},
            {Some(FormNumber(500))}, {"ymw16"}, BOOLEAN)

(* ------------------------------------------------------------------ *)
(* Specifications                                                       *)
(* ------------------------------------------------------------------ *)

Step(r, Args, SearchForms, DMForms) ==
  \/ \E args \in Args : APIRequest(r, args)
  \/ APIReadParams(r)
  \/ APISearch(r)
  \/ \E form \in SearchForms : SearchRequest(r, form)
  \/ SearchValidate(r)
  \/ SearchTable(r)
  \/ FollowRedirect(r)
  \/ \E form \in DMForms : ComputeRequest(r, form)
  \/ ComputeModel(r)
  \/ ComputeFinish(r)
  \/ Finish(r)

\* one request at a time, every kind of input
Next == Step(1, AllArgs, AllSearchForms, AllDMForms)

Spec == Init /\ [][Next]_vars

\* requests of all three handlers in flight at once
NextConc == \E r \in Req : Step(r, FewArgs, FewSearchForms, FewDMForms)

SpecConc == Init /\ [][NextConc]_vars

(* ------------------------------------------------------------------ *)
(* Properties                                                           *)
(* ------------------------------------------------------------------ *)

Done(r, h) == req[r].handler = h /\ req[r].pc = "done"

\* the searches a request has made
SearchCalls(r) == {req[r].calls[i].call : i \in 1..Len(req[r].calls)}

\* a parameter that is present and is no number
Malformed(args, k) == Has(args, k) /\ ~ParseFloat(Val(args[k])).ok

\* the number a present, well-formed parameter holds
ArgVal(args, k) == ParseFloat(Val(args[k])).val

\* C1: an API request without ra or without dec ends in a client error
\* message, and no catalog search is made for it, whatever else it carries.
C1_MissingRaOrDecIsClientError ==
  \A r \in Req :
    (Done(r, "API") /\ (~Has(req[r].args, "ra") \/ ~Has(req[r].args, "dec")))
      => (req[r].resp.kind = "text" /\ req[r].calls = <<>>)

\* C2: every search the API makes has the supplied radius in degrees, or
\* exactly 5 degrees when radius is absent; the supplied DM, or none; the
\* supplied DM tolerance, or 10.
C2_SearchArgumentsAndDefaults ==
  \A r \in Req : \A c \in SearchCalls(r) :
    req[r].handler = "API" =>
      LET a == req[r].args
      IN /\ c.radius = Quantity(IF Has(a, "radius") THEN ArgVal(a, "radius")
                                ELSE Tenths(5), 1)
         /\ IF Has(a, "dm") THEN ~IsNone(c.DM) /\ Val(c.DM).v = ArgVal(a, "dm")
            ELSE IsNone(c.DM)
         /\ Val(c.DM_tolerance).v =
              (IF Has(a, "dmtol") THEN ArgVal(a, "dmtol") ELSE Tenths(10))

\* C3: an API request with ra and dec present in which some parameter is no
\* number, or ra and dec form no coordinate, ends in an error message that
\* echoes the bad input, without a search and without an unhandled fault.
C3_MalformedInputIsClientError ==
  \A r \in Req :
    LET a == req[r].args
    IN (/\ Done(r, "API") /\ Has(a, "ra") /\ Has(a, "dec")
        /\ \/ \E k \in ArgKeys : Malformed(a, k)
           \/ ~SkyCoord(Float(ArgVal(a, "ra")), Float(ArgVal(a, "dec"))).ok)
         => /\ req[r].resp.kind = "text"
            /\ ~IsNone(req[r].resp.data)
            /\ req[r].calls = <<>>

\* C5: every search of either handler passes a DM and a DM tolerance that
\* are both present or both absent.
C5_DMWindowBothOrNeither ==
  \A r \in Req : \A c \in SearchCalls(r) :
    req[r].handler \in {"API", "Search"} => (IsNone(c.DM) <=> IsNone(c.DM_tolerance))

\* C6: every search the API makes has a radius above zero and, with a DM
\* present, a DM tolerance of at least zero.
C6_PositiveRadiusNonNegativeTolerance ==
  \A r \in Req : \A c \in SearchCalls(r) :
    req[r].handler = "API" =>
      /\ c.radius.v > 0
      /\ ~IsNone(c.DM) => Val(c.DM_tolerance).v >= 0

\* the DM window a search applies: none without a DM, else centre and tolerance
Window(c) ==
  IF IsNone(c.DM) THEN None ELSE Some(<<Val(c.DM).v, Val(c.DM_tolerance).v>>)

\* the form as it would be handled on the HTML path
AsHtml(form) == [form EXCEPT !.api = FALSE, !.clear = FALSE]

\* C4: a valid Search submission with the API flag ends in a redirect to the
\* API, without a search by the form handler; the redirect carries ra, dec
\* and radius of the form, and dm and dmtol exactly when a DM was entered;
\* and the search the API then makes has the centre, radius and DM window
\* the HTML path uses for the same form.
C4_ApiFlagRedirectsWithEquivalentParameters ==
  \A r \in Req :
    /\ (/\ Done(r, "Search")
        /\ SearchFormValid(Val(req[r].form)) /\ Val(req[r].form).api)
         => LET form == Val(req[r].form)
                p    == req[r].resp.data
                c    == Val(ParseCoord(form.coordinates, "icrs").coord)
            IN /\ req[r].resp.kind = "redirect" /\ req[r].resp.what = "API"
               /\ req[r].calls = <<>>
               /\ Has(p, "ra") /\ ArgVal(p, "ra") = c.lon
               /\ Has(p, "dec") /\ ArgVal(p, "dec") = c.lat
               /\ Has(p, "radius") /\ ArgVal(p, "radius") = Val(form.radius).v
               /\ Has(p, "dm") <=> ~IsNone(form.dm)
               /\ Has(p, "dmtol") <=> ~IsNone(form.dm)
               /\ Has(p, "dm") => ArgVal(p, "dm") = Val(form.dm).v
               /\ (Has(p, "dmtol") /\ ~IsNone(form.dmtol))
                    => ArgVal(p, "dmtol") = Val(form.dmtol).v
    /\ (Done(r, "API") /\ ~IsNone(req[r].origin))
         => LET html == FormSearchCall(Val(SearchSubmit(AsHtml(Val(req[r].origin))).loc))
            IN /\ req[r].resp.kind = "json"
               /\ \A c \in SearchCalls(r) :
                    /\ c.coord = html.coord
                    /\ c.radius = html.radius
                    /\ Window(c) = Window(html)

\* C4 happens: the API has searched for a redirected form that had a DM but
\* no DM tolerance.
C4_Witness ==
  \E r \in Req :
    /\ Done(r, "API") /\ ~IsNone(req[r].origin)
    /\ ~IsNone(Val(req[r].origin).dm) /\ IsNone(Val(req[r].origin).dmtol)
    /\ req[r].resp.kind = "json" /\ SearchCalls(r) # {}

\* the same query put to the form and to the API: each part absent in both
\* or the same number in both
SameInputs(form, args) ==
  LET c == ParseCoord(form.coordinates, "icrs")
      Same(o, k) == IF IsNone(o) THEN ~Has(args, k)
                    ELSE Has(args, k) /\ ~Malformed(args, k) /\ ArgVal(args, k) = Val(o).v
  IN /\ c.ok
     /\ Same(Some(Float(Val(c.coord).lon)), "ra")
     /\ Same(Some(Float(Val(c.coord).lat)), "dec")
     /\ Same(form.radius, "radius")
     /\ Same(form.dm, "dm")
     /\ Same(form.dmtol, "dmtol")

\* C7: for the same query the HTML path and the API make the same search:
\* same centre, same radius and same DM window (a DM tolerance without a DM
\* selects nothing and is not counted a difference); only the output
\* format differs.
C7_HtmlAndJsonSearchAlike ==
  \A r1 \in Req : \A r2 \in Req :
    (/\ req[r1].handler = "Search" /\ req[r2].handler = "API"
     /\ IsNone(req[r2].origin)
     /\ SameInputs(Val(req[r1].form), req[r2].args))
      => \A c1 \in SearchCalls(r1) : \A c2 \in SearchCalls(r2) :
           /\ c1.coord = c2.coord
           /\ c1.radius = c2.radius
           /\ Window(c1) = Window(c2)

\* what the external calls of a request answered
Outs(r) == [i \in 1..Len(req[r].calls) |-> req[r].calls[i].out]

\* C8: the catalog built at startup is never written: it keeps its loaded
\* contents under every interleaving of requests, every search reads the
\* loaded contents, and a request's response depends on nothing but its own
\* parameters and what its own external calls answered.
C8_CatalogReadOnlyRequestsIndependent ==
  /\ pulsar_table = LoadedTable
  /\ \A r \in Req : \A i \in 1..Len(req[r].calls) :
       req[r].handler \in {"API", "Search"} => req[r].calls[i].table = LoadedTable
  /\ \A r1 \in Req : \A r2 \in Req :
       (/\ req[r1].pc = "done" /\ req[r2].pc = "done"
        /\ req[r1].handler = req[r2].handler
        /\ req[r1].args = req[r2].args
        /\ req[r1].form = req[r2].form
        /\ Outs(r1) = Outs(r2))
         => req[r1].resp = req[r2].resp

\* C8 happens: a Search request and an API request have both searched and
\* are in flight together.
C8_Witness ==
  \E r1 \in Req : \E r2 \in Req :
    /\ Done(r1, "Search") /\ SearchCalls(r1) # {}
    /\ Done(r2, "API") /\ SearchCalls(r2) # {}

\* the call a valid Compute form asks for
ExpectedModelCall(form, c) ==
  LET g == Galactic(Val(ParseCoord(form.coordinates,
                                   FrameOf(form.lb_or_radec_selector)).coord))
  IN /\ c.fn = (IF form.d_or_dm_selector = "dm" THEN "dm_to_dist" ELSE "dist_to_dm")
     /\ c.l = g.lon /\ c.b = g.lat
     /\ c.value.v = Val(form.d_or_dm).v
     /\ c.value.ty = (IF form.d_or_dm_selector = "dm" THEN "float" ELSE "quantity_pc")
     /\ c.method = form.model_selector

\* the response shows the value the model returned
Surfaces(r) ==
  LET form == Val(req[r].form)
      out  == req[r].calls[1].out
  IN /\ req[r].resp.kind = "html" /\ ~IsNone(req[r].resp.data)
     /\ IF form.d_or_dm_selector = "dm"
          THEN Val(req[r].resp.data).distance = out.value
          ELSE Val(req[r].resp.data).DM = out.value

C10_ClearRedirectsBeforeAnyCall ==
  \A r \in Req :
    (/\ req[r].pc = "done" /\ req[r].handler \in {"Search", "Compute"}
     /\ Val(req[r].form).clear
     /\ (req[r].handler = "Search" => ~Val(req[r].form).api))
      => /\ req[r].resp = RedirectResp(req[r].handler, NoArgs)
         /\ req[r].calls = <<>>

====
